---- MODULE Spec2Model ----
(***************************************************************************)
(* The projects endpoint of no-tone.com (src/pages/api/projects.json.ts,   *)
(* the revision with the rate limiter): origin guard, fixed-window rate    *)
(* limiter, one-slot edge cache with stale-while-revalidate, upstream      *)
(* fetch and normalisation.                                                *)
(*                                                                         *)
(* JavaScript runs a handler to completion between two awaits, so each     *)
(* action below is one synchronous segment of a handler: from the arrival  *)
(* of the request (or the resolution of the awaited promise) to the next   *)
(* await or to the return.                                                 *)
(*                                                                         *)
(* Optional values (a header that may be absent, null, undefined) are      *)
(* sequences of length 0 or 1: None is <<>>, Some(x) is <<x>>.             *)
(***************************************************************************)
EXTENDS Integers, Sequences, FiniteSets, TLC

None == <<>>
Some(x) == <<x>>
IsSome(o) == Len(o) = 1
Val(o) == o[1]

(***************************************************************************)
(* Program constants.                                                      *)
(***************************************************************************)
EDGE_TTL_SECONDS == 900
BROWSER_TTL_SECONDS == 300
RATE_LIMIT_WINDOW_MS == 60000
ALLOW_METHODS == "GET"

\* The limit of the fixed window. The source sets 90; the model keeps the
\* code's arithmetic and runs it with a small limit, so that a client can
\* exhaust a window within the explored runs.
RATE_LIMIT_MAX == 3


MaxVersion == 2      \* upstream content versions 1..MaxVersion
MaxTasks == 1        \* background revalidations in flight at once
MaxTicks == 2        \* advances of the clock in one run
StartMs == 1500      \* Date.now() when the isolate starts
MaxFill == 1         \* well-formed repositories in front of the one under test

(***************************************************************************)
(* JSON values as the upstream may send them. A value is a record          *)
(*   [t: type tag, s: string, n: number, b: boolean, a: array elements];   *)
(* an absent property reads as JUndef. An element of the top-level array   *)
(* is [t, f] with f the properties of an object (empty for a non-object).  *)
(***************************************************************************)
JBlank == [t |-> "undefined", s |-> "", n |-> 0, b |-> FALSE, a |-> <<>>]
JUndef == JBlank
JNull == [JBlank EXCEPT !.t = "null"]
JStr(x) == [JBlank EXCEPT !.t = "string", !.s = x]
JNum(x) == [JBlank EXCEPT !.t = "number", !.n = x]
JBool(x) == [JBlank EXCEPT !.t = "boolean", !.b = x]
JArr(x) == [JBlank EXCEPT !.t = "array", !.a = x]
JObj == [JBlank EXCEPT !.t = "object"]
\* an object whose own "toString" and "valueOf" properties are not functions,
\* such as {"toString": 1, "valueOf": 1}: String(v) throws a TypeError
JOpaque == [JBlank EXCEPT !.t = "opaque"]

Elem(tag, props) == [t |-> tag, f |-> props]
Prop(repo, k) == IF k \in DOMAIN repo.f THEN repo.f[k] ELSE JUndef

\* JavaScript truthiness: !!v
Truthy(v) ==
  CASE v.t = "undefined" -> FALSE
    [] v.t = "null" -> FALSE
    [] v.t = "boolean" -> v.b
    [] v.t = "number" -> v.n # 0
    [] v.t = "string" -> v.s # ""
    [] OTHER -> TRUE

RECURSIVE JsJoin(_, _)
\* String(v) of a scalar, and Array.prototype.join for String(array)
JsScalarString(v) ==
  CASE v.t = "string" -> v.s
    [] v.t = "number" -> ToString(v.n)
    [] v.t = "boolean" -> (IF v.b THEN "true" ELSE "false")
    [] v.t = "object" -> "[object Object]"
    [] v.t = "null" -> "null"
    [] OTHER -> "undefined"
JsJoin(a, i) ==
  IF i > Len(a) THEN ""
  ELSE (IF a[i].t \in {"null", "undefined"} THEN "" ELSE JsScalarString(a[i]))
       \o (IF i < Len(a) THEN "," ELSE "")
       \o JsJoin(a, i + 1)
JsString(v) == IF v.t = "array" THEN JsJoin(v.a, 1) ELSE JsScalarString(v)

RECURSIVE SimplifyFrom(_, _)
SimplifyOne(repo) ==
  [ name |-> JsString(Prop(repo, "name")),
    url |-> JsString(Prop(repo, "html_url")),
    homepage |-> IF Truthy(Prop(repo, "homepage"))
                 THEN JsString(Prop(repo, "homepage")) ELSE "",
    language |-> IF Truthy(Prop(repo, "language"))
                 THEN JsString(Prop(repo, "language")) ELSE "Other",
    description |-> IF Truthy(Prop(repo, "description"))
                    THEN JsString(Prop(repo, "description")) ELSE "",
    topics |-> IF Prop(repo, "topics").t = "array"
               THEN Prop(repo, "topics").a ELSE <<>>,
    isFork |-> Truthy(Prop(repo, "fork")),
    isArchived |-> Truthy(Prop(repo, "archived")),
    hasPages |-> Truthy(Prop(repo, "has_pages")),
    stars |-> IF Prop(repo, "stargazers_count").t = "number"
              THEN Prop(repo, "stargazers_count").n ELSE 0,
    forks |-> IF Prop(repo, "forks_count").t = "number"
              THEN Prop(repo, "forks_count").n ELSE 0,
    updatedAt |-> IF Truthy(Prop(repo, "updated_at"))
                  THEN JsString(Prop(repo, "updated_at")) ELSE "" ]
KeepRepo(repo) ==
  /\ repo.t \in {"object", "array"}
  /\ Truthy(Prop(repo, "name"))
  /\ Truthy(Prop(repo, "html_url"))
SimplifyFrom(items, i) ==
  IF i > Len(items) THEN <<>>
  ELSE (IF KeepRepo(items[i]) THEN <<SimplifyOne(items[i])>> ELSE <<>>)
       \o SimplifyFrom(items, i + 1)
\* a payload is [isArray, items]
simplifyRepos(payload) ==
  IF ~payload.isArray THEN <<>> ELSE SimplifyFrom(payload.items, 1)

\* whether String(v) returns; it throws on an object that cannot be converted
\* to a primitive, alone or as an element of an array
Converts(v) ==
  IF v.t = "array" THEN \A i \in DOMAIN v.a : v.a[i].t # "opaque"
  ELSE v.t # "opaque"
\* whether the map callback of lines 62-76 throws on a kept repository
MapThrows(repo) ==
  \/ \E k \in {"name", "html_url"} : ~Converts(Prop(repo, k))
  \/ \E k \in {"homepage", "language", "description", "updated_at"} :
       Truthy(Prop(repo, k)) /\ ~Converts(Prop(repo, k))
SimplifyThrows(payload) ==
  /\ payload.isArray
  /\ \E i \in DOMAIN payload.items :
       KeepRepo(payload.items[i]) /\ MapThrows(payload.items[i])

\* Date.parse on the date strings the payloads use; None is NaN.
DateParse(str) ==
  CASE str = "1970-01-01T00:00:05Z" -> Some(5000)
    [] str = "1970-01-02T00:00:00Z" -> Some(86400000)
    [] str = "1970-01-01T00:00:05.000Z" -> Some(5000)
    [] str = "1970-01-02T00:00:00.000Z" -> Some(86400000)
    [] OTHER -> None
\* new Date(ms).toISOString()
ToISOString(ms) ==
  CASE ms = 5000 -> "1970-01-01T00:00:05.000Z"
    [] ms = 86400000 -> "1970-01-02T00:00:00.000Z"
    [] OTHER -> "1970-01-01T00:00:00.000Z"

RECURSIVE NewestFrom(_, _, _)
NewestFrom(repos, i, newest) ==
  IF i > Len(repos) THEN newest
  ELSE LET p == IF repos[i].updatedAt # "" THEN DateParse(repos[i].updatedAt)
                ELSE Some(0)
           ts == IF IsSome(p) THEN Val(p) ELSE 0
           gt == IsSome(p) /\ ts > newest
       IN NewestFrom(repos, i + 1, IF gt THEN ts ELSE newest)
\* a variant of getLastUpdatedAt that takes the date of the last repository
getLastUpdatedAtOfLast(repos) ==
  IF repos = <<>> THEN ""
  ELSE LET p == DateParse(repos[Len(repos)].updatedAt)
       IN IF IsSome(p) /\ Val(p) > 0 THEN ToISOString(Val(p)) ELSE ""
getLastUpdatedAt(repos) ==
  LET newest == NewestFrom(repos, 1, 0)
  IN IF newest # 0 THEN ToISOString(newest) ELSE ""

(***************************************************************************)
(* Requests. Header values whose characters the code inspects (the client  *)
(* address headers) are sequences of tokens: an address, "," or " ".       *)
(***************************************************************************)
SiteOrigin == "https://no-tone.com"
ForeignOrigin == "https://evil.example"
Methods == {"GET", "POST", "PUT", "PATCH", "DELETE", "HEAD", "OPTIONS"}
OriginHeaders == {None, Some(""), Some(SiteOrigin), Some(ForeignOrigin)}
SecFetchSiteHeaders == {None, Some("same-origin"), Some("cross-site")}
CfIpHeaders == {None, Some(<<"198.51.100.7">>)}
XffHeaders == {None, Some(<<" ", "203.0.113.9", " ", ",", "10.0.0.1">>)}
Unknown == "unknown"

Requests ==
  [ method : Methods, origin : OriginHeaders, secFetchSite : SecFetchSiteHeaders,
    cfIp : CfIpHeaders, xff : XffHeaders, waitUntil : BOOLEAN ]

\* the requests the endpoint is driven with where the whole product is not needed
Plain == [ method |-> "GET", origin |-> None, secFetchSite |-> None,
           cfIp |-> None, xff |-> None, waitUntil |-> TRUE ]
CoreRequests ==
  { Plain,
    [Plain EXCEPT !.origin = Some(SiteOrigin), !.secFetchSite = Some("same-origin"),
                  !.waitUntil = FALSE],
    [Plain EXCEPT !.origin = Some(ForeignOrigin)],
    [Plain EXCEPT !.origin = Some(SiteOrigin), !.secFetchSite = Some("cross-site")],
    [Plain EXCEPT !.method = "POST", !.origin = Some(ForeignOrigin)] }
\* one client, with and without the waitUntil hook
RepeatRequests == { Plain, [Plain EXCEPT !.waitUntil = FALSE] }
\* every method, Origin and Sec-Fetch-Site, from one client
GuardRequests ==
  { r \in Requests : r.cfIp = None /\ r.xff = None /\ r.waitUntil }

\* every method and client address, with a foreign Origin
RateRequests ==
  { r \in Requests : r.origin = Some(ForeignOrigin) /\ r.secFetchSite = None
                      /\ r.xff = None /\ r.waitUntil }

\* the client address headers in all their shapes: absent, empty, one entry,
\* several entries, blank, and an empty first entry; GET and POST, with a
\* foreign Origin
CfIpValues == {None, Some(<<>>), Some(<<"198.51.100.7">>)}
XffValues ==
  { None, Some(<<>>), Some(<<"203.0.113.9">>),
    Some(<<"203.0.113.9", " ", ",", " ", "10.0.0.1">>),
    Some(<<"10.0.0.1", ",", "203.0.113.9">>),
    Some(<<" ", " ">>),
    Some(<<",", "10.0.0.1">>),
    Some(<<" ", ",", "10.0.0.1">>) }
ClientRequests ==
  { [Plain EXCEPT !.method = m, !.origin = Some(ForeignOrigin), !.cfIp = c, !.xff = x] :
      m \in {"GET", "POST"}, c \in CfIpValues, x \in XffValues }

RECURSIVE FirstField(_, _)
\* str.split(',')[0]: the tokens before the first ","
FirstField(str, i) ==
  IF i > Len(str) \/ str[i] = "," THEN <<>>
  ELSE <<str[i]>> \o FirstField(str, i + 1)
RECURSIVE TrimStart(_)
TrimStart(str) ==
  IF str # <<>> /\ Head(str) = " " THEN TrimStart(Tail(str)) ELSE str
RECURSIVE TrimEnd(_)
TrimEnd(str) ==
  IF str # <<>> /\ str[Len(str)] = " " THEN TrimEnd(SubSeq(str, 1, Len(str) - 1))
  ELSE str
Trim(str) == TrimEnd(TrimStart(str))
RECURSIVE Text(_)
\* the string a token sequence stands for
Text(str) == IF str = <<>> THEN "" ELSE Head(str) \o Text(Tail(str))

\* a variant of getClientIp that prefers X-Forwarded-For
getClientIpForwardedFirst(request) ==
  LET first == IF IsSome(request.xff) THEN Trim(FirstField(Val(request.xff), 1))
               ELSE <<>>
  IN IF first # <<>> THEN Text(first)
     ELSE IF IsSome(request.cfIp) /\ Val(request.cfIp) # <<>>
     THEN Text(Val(request.cfIp))
     ELSE Unknown
getClientIp(request) ==
  IF IsSome(request.cfIp) /\ Val(request.cfIp) # <<>> THEN Text(Val(request.cfIp))
  ELSE IF ~IsSome(request.xff) \/ Val(request.xff) = <<>> THEN Unknown
  ELSE LET first == Trim(FirstField(Val(request.xff), 1))
       IN IF first # <<>> THEN Text(first) ELSE Unknown

ClientIds == {getClientIp(r) : r \in Requests \cup ClientRequests}

(***************************************************************************)
(* The rate limiter. readRateLimit returns the state it reports and the    *)
(* store it leaves behind.                                                 *)
(***************************************************************************)
\* a variant of readRateLimit that blocks the call that reaches the limit
readRateLimitInclusive(store, request, nowMs) ==
  LET ip == getClientIp(request)
      current == store[ip]
  IN IF ~IsSome(current) \/ Val(current).resetAt <= nowMs
     THEN LET next == [count |-> 1, resetAt |-> nowMs + RATE_LIMIT_WINDOW_MS]
          IN [ store |-> [store EXCEPT ![ip] = Some(next)],
               rate |-> [ limit |-> RATE_LIMIT_MAX,
                          remaining |-> RATE_LIMIT_MAX - 1,
                          resetAt |-> next.resetAt,
                          blocked |-> FALSE ] ]
     ELSE LET count == Val(current).count + 1
              blocked == count >= RATE_LIMIT_MAX
          IN [ store |-> [store EXCEPT ![ip] = Some([Val(current) EXCEPT !.count = count])],
               rate |-> [ limit |-> RATE_LIMIT_MAX,
                          remaining |-> IF blocked THEN 0 ELSE RATE_LIMIT_MAX - count,
                          resetAt |-> Val(current).resetAt,
                          blocked |-> blocked ] ]

\* a variant of readRateLimit that drops every other entry when it opens a window
readRateLimitSweeping(store, request, nowMs) ==
  LET ip == getClientIp(request)
      current == store[ip]
  IN IF ~IsSome(current) \/ Val(current).resetAt <= nowMs
     THEN LET next == [count |-> 1, resetAt |-> nowMs + RATE_LIMIT_WINDOW_MS]
          IN [ store |-> [i \in DOMAIN store |-> IF i = ip THEN Some(next) ELSE None],
               rate |-> [ limit |-> RATE_LIMIT_MAX,
                          remaining |-> RATE_LIMIT_MAX - 1,
                          resetAt |-> next.resetAt,
                          blocked |-> FALSE ] ]
     ELSE LET count == Val(current).count + 1
              blocked == count > RATE_LIMIT_MAX
              diff == RATE_LIMIT_MAX - count
              remaining == IF blocked THEN 0 ELSE (IF diff > 0 THEN diff ELSE 0)
          IN [ store |-> [store EXCEPT ![ip] = Some([Val(current) EXCEPT !.count = count])],
               rate |-> [ limit |-> RATE_LIMIT_MAX,
                          remaining |-> remaining,
                          resetAt |-> Val(current).resetAt,
                          blocked |-> blocked ] ]
readRateLimit(store, request, nowMs) ==
  LET ip == getClientIp(request)
      current == store[ip]
  IN IF ~IsSome(current) \/ Val(current).resetAt <= nowMs
     THEN LET next == [count |-> 1, resetAt |-> nowMs + RATE_LIMIT_WINDOW_MS]
          IN [ store |-> [store EXCEPT ![ip] = Some(next)],
               rate |-> [ limit |-> RATE_LIMIT_MAX,
                          remaining |-> RATE_LIMIT_MAX - 1,
                          resetAt |-> next.resetAt,
                          blocked |-> FALSE ] ]
     ELSE LET count == Val(current).count + 1
              blocked == count > RATE_LIMIT_MAX
              diff == RATE_LIMIT_MAX - count
              remaining == IF blocked THEN 0 ELSE (IF diff > 0 THEN diff ELSE 0)
          IN [ store |-> [store EXCEPT ![ip] = Some([Val(current) EXCEPT !.count = count])],
               rate |-> [ limit |-> RATE_LIMIT_MAX,
                          remaining |-> remaining,
                          resetAt |-> Val(current).resetAt,
                          blocked |-> blocked ] ]

(***************************************************************************)
(* Response headers: functions from header names to strings.               *)
(***************************************************************************)
CACHED_AT_HEADER == "x-no-tone-cached-at"
LAST_UPDATED_HEADER == "x-no-tone-last-updated"

\* truthiness of a string that may be null
TruthyStr(o) == IsSome(o) /\ Val(o) # ""

buildHeaders(origin) ==
  LET headers ==
        [ x \in { "Content-Type", "Cache-Control", "X-Content-Type-Options",
                  "Cross-Origin-Resource-Policy", "Referrer-Policy" } |->
          CASE x = "Content-Type" -> "application/json; charset=utf-8"
            [] x = "Cache-Control" ->
                 "public, max-age=" \o ToString(BROWSER_TTL_SECONDS)
                 \o ", s-maxage=" \o ToString(EDGE_TTL_SECONDS)
            [] x = "X-Content-Type-Options" -> "nosniff"
            [] x = "Cross-Origin-Resource-Policy" -> "same-origin"
            [] OTHER -> "no-referrer" ]
  IN IF TruthyStr(origin)
     THEN ("Access-Control-Allow-Origin" :> Val(origin)) @@ ("Vary" :> "Origin") @@ headers
     ELSE headers

\* Math.ceil(ms / 1000)
CeilSeconds(ms) == (ms + 999) \div 1000

attachRateLimitHeaders(headers, rate) ==
  ("X-RateLimit-Limit" :> ToString(rate.limit))
  @@ ("X-RateLimit-Remaining" :> ToString(rate.remaining))
  @@ ("X-RateLimit-Reset" :> ToString(CeilSeconds(rate.resetAt)))
  @@ headers

\* extra is a function of header names (<<>> when the argument is omitted)
buildHeadersWithRate(origin, rate, extra) ==
  attachRateLimitHeaders(extra @@ buildHeaders(origin), rate)

(***************************************************************************)
(* Bodies are JSON documents: JSON.stringify({error}) or JSON.stringify of *)
(* a list of simplified repositories.                                      *)
(***************************************************************************)
JsonError(error) == [t |-> "object", error |-> error, repos |-> <<>>]
JsonArray(repos) == [t |-> "array", error |-> "", repos |-> repos]

Response(status, body, headers) ==
  [status |-> status, body |-> body, headers |-> headers]

jsonError(status, error, origin, rate, extra) ==
  Response(status, JsonError(error), buildHeadersWithRate(origin, rate, extra))

\* a variant of methodNotAllowed that names no allowed method
methodNotAllowedNoAllow(origin, rate) ==
  jsonError(405, "Method Not Allowed", origin, rate, [x \in {} |-> ""])

methodNotAllowed(origin, rate) ==
  jsonError(405, "Method Not Allowed", origin, rate, "Allow" :> ALLOW_METHODS)

(***************************************************************************)
(* The clock. Date.now() is read from now; the clock advances by half a    *)
(* rate-limit window or by the edge TTL less half a window, so that both   *)
(* the window's end and the TTL are met exactly and missed by half a       *)
(* window.                                                                 *)
(***************************************************************************)
SmallStep == RATE_LIMIT_WINDOW_MS \div 2
BigStep == EDGE_TTL_SECONDS * 1000 - SmallStep
ClockValues ==
  { StartMs + a * SmallStep + b * BigStep :
      a \in 0..MaxTicks, b \in 0..MaxTicks }

(***************************************************************************)
(* The upstream: its content has a version; odd versions are served with   *)
(* an ETag, even versions without one.                                     *)
(***************************************************************************)
EtagOf(v) == IF v % 2 = 1 THEN Some("W/\"v" \o ToString(v) \o "\"") ELSE None

Payload(v) ==
  CASE v = 1 ->
         [ isArray |-> TRUE,
           items |-> <<
             Elem("object",
                  [ name |-> JStr("site"),
                    html_url |-> JStr("https://github.com/n0-tone/site"),
                    homepage |-> JStr("https://no-tone.com"),
                    language |-> JStr("Astro"),
                    description |-> JNull,
                    topics |-> JArr(<<JStr("astro")>>),
                    fork |-> JBool(FALSE),
                    forks_count |-> JNum(1),
                    archived |-> JBool(FALSE),
                    has_pages |-> JBool(TRUE),
                    stargazers_count |-> JNum(2),
                    updated_at |-> JStr("1970-01-01T00:00:05Z") ]) >> ]
    [] v = 2 ->
         [ isArray |-> TRUE,
           items |-> <<
             Elem("object",
                  [ name |-> JStr("site"),
                    html_url |-> JStr("https://github.com/n0-tone/site"),
                    stargazers_count |-> JNum(3),
                    updated_at |-> JStr("1970-01-02T00:00:00Z") ]),
             Elem("object",
                  [ name |-> JStr("x"), html_url |-> JStr("y"),
                    stargazers_count |-> JStr("3"),
                    updated_at |-> JStr("1970-01-01T00:00:05Z") ]),
             Elem("object", [ html_url |-> JStr("z") ]),
             Elem("null", <<>>) >> ]
    [] v = 3 ->
         [ isArray |-> TRUE,
           items |-> <<
             Elem("object",
                  [ name |-> JStr("dotfiles"),
                    html_url |-> JStr("https://github.com/n0-tone/dotfiles"),
                    updated_at |-> JStr("yesterday") ]) >> ]
    [] OTHER -> [ isArray |-> FALSE, items |-> <<>> ]

\* What one upstream call may come to, given the If-None-Match it carries:
\* status 0 is a rejected fetch (network error); a 304 answers a validator
\* that matches the current content; a 2xx body may fail to parse; an error
\* status comes with or without a JSON body.
UpstreamOutcomes(version, ifNoneMatch) ==
  { [status |-> 0, version |-> version, parsable |-> FALSE],
    [status |-> 500, version |-> version, parsable |-> FALSE],
    [status |-> 403, version |-> version, parsable |-> TRUE],
    [status |-> 200, version |-> version, parsable |-> TRUE],
    [status |-> 200, version |-> version, parsable |-> FALSE] }
  \cup
  IF TruthyStr(ifNoneMatch) /\ EtagOf(version) = ifNoneMatch
  THEN { [status |-> 304, version |-> version, parsable |-> FALSE] }
  ELSE {}
\* a variant of Ok that takes every answer for a success
OkAlways(outcome) == TRUE
Ok(outcome) == outcome.status >= 200 /\ outcome.status <= 299
\* what upstream.json() gives: the repositories, or the object that tells the
\* error ({"message": ...})
Body(outcome) ==
  IF outcome.status = 200 THEN Payload(outcome.version)
  ELSE [ isArray |-> FALSE, items |-> <<>> ]

(***************************************************************************)
(* Cached responses.                                                       *)
(***************************************************************************)
NoExtra == [x \in {} |-> ""]
Get(headers, k) == IF k \in DOMAIN headers THEN Some(headers[k]) ELSE None

\* a variant of toCachedResponse that never stores the ETag
toCachedResponseNoEtag(body, etag, lastUpdated, dateNow) ==
  Response(200, body,
           (CACHED_AT_HEADER :> ToString(dateNow))
           @@ (LAST_UPDATED_HEADER :> lastUpdated)
           @@ ("Content-Type" :> "application/json; charset=utf-8"))
toCachedResponse(body, etag, lastUpdated, dateNow) ==
  LET headers == (CACHED_AT_HEADER :> ToString(dateNow))
                 @@ (LAST_UPDATED_HEADER :> lastUpdated)
                 @@ ("Content-Type" :> "application/json; charset=utf-8")
  IN Response(200, body,
              IF TruthyStr(etag) THEN ("ETag" :> Val(etag)) @@ headers ELSE headers)

\* Number(raw) for the decimal strings String(Date.now()) produces; None is NaN
ParseNumber(raw) ==
  IF \E n \in ClockValues : ToString(n) = raw
  THEN Some(CHOOSE n \in ClockValues : ToString(n) = raw)
  ELSE None

\* a variant of readCachedAtMs that finds no timestamp on any entry
readCachedAtMsAbsent(res) == 0

readCachedAtMs(res) ==
  LET raw == Get(res.headers, CACHED_AT_HEADER)
  IN IF ~TruthyStr(raw) THEN 0
     ELSE LET parsed == ParseNumber(Val(raw))
          IN IF IsSome(parsed) THEN Val(parsed) ELSE 0

\* the TTL of the edge cache in ms
TtlMs == EDGE_TTL_SECONDS * 1000

\* a variant of isFresh that takes every entry for fresh
isFreshAlways(cachedAtMs, nowMs) == TRUE

\* a variant of isFresh that compares the age in ms with the TTL in seconds
isFreshTtlUnscaled(cachedAtMs, nowMs) ==
  IF cachedAtMs = 0 THEN FALSE
  ELSE nowMs - cachedAtMs < EDGE_TTL_SECONDS

isFresh(cachedAtMs, nowMs) ==
  IF cachedAtMs = 0 THEN FALSE
  ELSE nowMs - cachedAtMs < EDGE_TTL_SECONDS * 1000

\* a variant of responseFromCached that builds its headers without the rate
responseFromCachedUnrated(cached, origin, rate) ==
  Response(200, cached.body, buildHeaders(origin))

responseFromCached(cached, origin, rate) ==
  LET etag == Get(cached.headers, "ETag")
      lastUpdated == Get(cached.headers, LAST_UPDATED_HEADER)
      h0 == buildHeadersWithRate(origin, rate, NoExtra)
      h1 == IF TruthyStr(etag) THEN ("ETag" :> Val(etag)) @@ h0 ELSE h0
      h2 == IF TruthyStr(lastUpdated)
            THEN (LAST_UPDATED_HEADER :> Val(lastUpdated)) @@ h1 ELSE h1
  IN Response(200, cached.body, h2)

(***************************************************************************)
(* State.                                                                  *)
(***************************************************************************)
VARIABLES
  now,             \* the wall clock, Date.now()
  ticks,           \* how often the clock has advanced
  rateLimitStore,  \* client id -> None or Some([count, resetAt])
  hasCache,        \* whether globalThis.caches.default exists
  cache,           \* the one slot of the edge cache: None or Some(Response)
  upstream,        \* the version of the upstream content
  handlers,        \* the GET handlers suspended at an await
  tasks,           \* the revalidations handed to waitUntil
  last,            \* Some(exchange) in the state an exchange completes in, else None
  first,           \* history: the first GET of the run that returned 200
  raw,             \* a parsed upstream body handed to simplifyRepos
  out              \* None, or Some([threw, repos]) once simplifyRepos has run on raw

vars ==
  <<now, ticks, rateLimitStore, hasCache, cache, upstream, handlers, tasks, last, first,
    raw, out>>

\* one GET handler is followed between its awaits
HandlerSlots == {1}
Handlers == DOMAIN handlers
Tasks == 1..MaxTasks
Idle == [pc |-> "idle"]
\* a task slot whose last run ended: abandoned after a failed fetch, ended
\* by cachedRes.clone() throwing in the 304 branch ("unreadable"), or ended
\* at its cache.put, which stored the entry or was rejected
Ended(how) == [pc |-> "idle", ended |-> how]
NoEffect == [reads |-> 0, writes |-> 0, calls |-> 0, sched |-> 0]
\* a client is followed for two calls beyond its limit within one window
MaxCalls == RATE_LIMIT_MAX + 2

\* what the framework answers when the handler's promise rejects
UnhandledError == Response(500, JsonError("Internal Server Error"), NoExtra)

\* What is known of a handler run when it ends: the code path taken, what it
\* did to the cache and the upstream (eff), the cache entry it read, how its
\* own upstream call came out, and which cache operation failed on it. An
\* exchange adds the upstream version at its end and the value of the history
\* variable before it (after).
NoFacts ==
  [ path |-> "", eff |-> NoEffect, cached |-> None, fetched |-> None,
    cacheError |-> "", ifNoneMatch |-> None ]

\* cached?.headers.get('ETag'), and the If-None-Match header a call carries
\* for it (None: the header is not sent)
EtagRead(cached) == IF IsSome(cached) THEN Get(Val(cached).headers, "ETag") ELSE None
IfNoneMatch(cachedEtag) == IF TruthyStr(cachedEtag) THEN cachedEtag ELSE None
\* the handler calls fetch(GITHUB_API_URL, ...)
Call(facts) ==
  [facts EXCEPT !.eff.calls = 1, !.ifNoneMatch = IfNoneMatch(EtagRead(facts.cached))]

\* a completed exchange
Exchange(request, nowMs, rate, thrown, response, facts) ==
  [ request |-> request, nowMs |-> nowMs, rate |-> rate, thrown |-> thrown,
    response |-> response, path |-> facts.path, eff |-> facts.eff,
    cached |-> facts.cached, fetched |-> facts.fetched,
    cacheError |-> facts.cacheError, version |-> upstream, after |-> first ]

\* The history variable first is set by the first GET that returns 200. It is
\* no part of the program: a specification either leaves it alone or lets it
\* observe the exchanges (Observe).
Remember(exchange) ==
  IF first = None /\ exchange.request.method = "GET" /\ ~exchange.thrown
     /\ exchange.response.status = 200
  THEN Some([ body |-> exchange.response.body, calls |-> exchange.eff.calls,
              nowMs |-> exchange.nowMs, version |-> exchange.version,
              miss |-> exchange.cached = None,
              storedAt |-> IF exchange.eff.writes = 1 /\ IsSome(cache')
                           THEN Some(readCachedAtMs(Val(cache'))) ELSE None ])
  ELSE first

Observe ==
  /\ first' = IF last' # None THEN Remember(Val(last')) ELSE first
  /\ UNCHANGED <<raw, out>>
Quiet == UNCHANGED <<first, raw, out>>

Init ==
  /\ now = StartMs
  /\ ticks = 0
  /\ rateLimitStore = [ip \in ClientIds |-> None]
  /\ hasCache \in BOOLEAN
  /\ cache = None
  /\ upstream = 1
  /\ handlers = [h \in HandlerSlots |-> Idle]
  /\ tasks = [t \in Tasks |-> Idle]
  /\ last = None
  /\ first = None
  /\ raw = Payload(0)
  /\ out = None

CanCall(request) ==
  LET e == rateLimitStore[getClientIp(request)]
  IN IF IsSome(e) THEN Val(e).resetAt <= now \/ Val(e).count < MaxCalls ELSE TRUE

Tick ==
  /\ last = None
  /\ ticks < MaxTicks
  /\ \E step \in {SmallStep, BigStep} : now' = now + step
  /\ ticks' = ticks + 1
  /\ UNCHANGED <<rateLimitStore, hasCache, cache, upstream, handlers, tasks, last>>

UpstreamChange ==
  /\ last = None
  /\ upstream < MaxVersion
  /\ upstream' = upstream + 1
  /\ UNCHANGED <<now, ticks, rateLimitStore, hasCache, cache, handlers, tasks, last>>

\* the runtime has sent the response of the exchange that just completed
Deliver ==
  /\ last # None
  /\ last' = None
  /\ UNCHANGED <<now, ticks, rateLimitStore, hasCache, cache, upstream, handlers, tasks>>

\* POST, PUT, PATCH, DELETE, HEAD, OPTIONS, for a request out of population
methodNotAllowedHandler(population) ==
  \E request \in population :
    /\ last = None
    /\ request.method # "GET"
    /\ CanCall(request)
    /\ LET rl == readRateLimit(rateLimitStore, request, now)
       IN /\ rateLimitStore' = rl.store
          /\ last' = Some(Exchange(request, now, rl.rate, FALSE,
                                   methodNotAllowed(request.origin, rl.rate),
                                   [NoFacts EXCEPT !.path = "405"]))
    /\ UNCHANGED <<now, ticks, hasCache, cache, upstream, handlers, tasks>>

(***************************************************************************)
(* GET. Each action is one synchronous segment of the handler.             *)
(***************************************************************************)
FreeHandler(h) ==
  /\ handlers[h].pc = "idle"
  /\ \A g \in Handlers : g < h => handlers[g].pc # "idle"
FreeTask(t) ==
  /\ tasks[t].pc = "idle"
  /\ \A u \in Tasks : u < t => tasks[u].pc # "idle"

\* the conditions of the three early returns
OriginForbidden(origin) == TruthyStr(origin) /\ Val(origin) # SiteOrigin
CrossSite(secFetchSite) == TruthyStr(secFetchSite) /\ Val(secFetchSite) = "cross-site"
\* a variant of RateBlocked that lets every request through
RateBlockedNever(rate) == FALSE
RateBlocked(rate) == rate.blocked

\* the handler returns without having awaited anything
Answer(request, rate, response, path) ==
  /\ last' = Some(Exchange(request, now, rate, FALSE, response,
                           [NoFacts EXCEPT !.path = path]))
  /\ UNCHANGED handlers

\* the suspended handler h returns response
Return(h, response, facts) ==
  LET s == handlers[h]
      exchange == Exchange(s.request, s.nowMs, s.rate, FALSE, response, facts)
  IN /\ last' = Some(exchange)
     /\ handlers' = [handlers EXCEPT ![h] = Idle]

\* the suspended handler h rejects: nothing in GET catches the error
Throw(h, facts) ==
  LET s == handlers[h]
  IN /\ last' = Some(Exchange(s.request, s.nowMs, s.rate, TRUE, UnhandledError, facts))
     /\ handlers' = [handlers EXCEPT ![h] = Idle]

Suspend(h, pc, request, rate, facts) ==
  /\ handlers' = [handlers EXCEPT ![h] =
       [ pc |-> pc, request |-> request, nowMs |-> now, rate |-> rate,
         facts |-> facts ]]
  /\ last' = None

\* lines 208-238: from the arrival of the request to the first await
GetStart(h, population) ==
  /\ last = None
  /\ FreeHandler(h)
  /\ \E request \in population :
       /\ request.method = "GET"
       /\ CanCall(request)
       /\ LET rl == readRateLimit(rateLimitStore, request, now)
              rate == rl.rate
              origin == request.origin
              secFetchSite == request.secFetchSite
          IN /\ rateLimitStore' = rl.store
             /\ IF OriginForbidden(origin)
                THEN Answer(request, rate,
                            jsonError(403, "Forbidden", None, rate, NoExtra), "403")
                ELSE IF CrossSite(secFetchSite)
                THEN Answer(request, rate,
                            jsonError(403, "Forbidden", origin, rate, NoExtra), "403")
                ELSE IF RateBlocked(rate)
                THEN Answer(request, rate,
                            jsonError(429, "Too Many Requests", origin, rate, NoExtra),
                            "429")
                ELSE IF hasCache
                THEN Suspend(h, "match", request, rate, NoFacts)
                \* no cache: fetch(GITHUB_API_URL) is called at once
                ELSE Suspend(h, "fetch", request, rate,
                             Call(NoFacts))
  /\ UNCHANGED <<now, ticks, hasCache, cache, upstream, tasks>>

\* a variant of GetMatched in which a stale entry read without the waitUntil
\* hook falls through to the handler's own upstream call
GetMatchedFallThrough(h) ==
  /\ last = None
  /\ handlers[h].pc = "match"
  /\ LET s == handlers[h]
         origin == s.request.origin
         read == [s.facts EXCEPT !.eff.reads = 1]
         hit == [read EXCEPT !.cached = cache]
         fresh == IsSome(cache) /\ isFresh(readCachedAtMs(Val(cache)), s.nowMs)
     IN \/ \* cache.match rejects
           /\ Throw(h, [read EXCEPT !.path = "match-error", !.cacheError = "match"])
           /\ UNCHANGED tasks
        \/ /\ fresh
           /\ Return(h, responseFromCached(Val(cache), origin, s.rate),
                     [hit EXCEPT !.path = "fresh"])
           /\ UNCHANGED tasks
        \/ /\ IsSome(cache) /\ ~fresh /\ s.request.waitUntil
           \* revalidate() runs up to its await fetch(...)
           /\ \E t \in Tasks :
                /\ FreeTask(t)
                /\ tasks' = [tasks EXCEPT ![t] =
                     [ pc |-> "fetch", cachedRes |-> Val(cache),
                       cachedEtag |-> EtagRead(cache),
                       ifNoneMatch |-> IfNoneMatch(EtagRead(cache)) ]]
           /\ Return(h, responseFromCached(Val(cache), origin, s.rate),
                     [hit EXCEPT !.path = "stale", !.eff.calls = 1, !.eff.sched = 1])
        \/ /\ IsSome(cache) /\ ~fresh /\ ~s.request.waitUntil
           /\ handlers' = [handlers EXCEPT ![h] =
                 [s EXCEPT !.pc = "fetch", !.facts = Call(hit)]]
           /\ last' = None
           /\ UNCHANGED tasks
        \/ \* a miss: fetch(GITHUB_API_URL) is called
           /\ ~IsSome(cache)
           /\ handlers' = [handlers EXCEPT ![h] =
                 [s EXCEPT !.pc = "fetch", !.facts = Call(read)]]
           /\ last' = None
           /\ UNCHANGED tasks
  /\ UNCHANGED <<now, ticks, rateLimitStore, hasCache, cache, upstream>>

\* lines 238-295: cache.match settles
GetMatched(h) ==
  /\ last = None
  /\ handlers[h].pc = "match"
  /\ LET s == handlers[h]
         origin == s.request.origin
         read == [s.facts EXCEPT !.eff.reads = 1]
         hit == [read EXCEPT !.cached = cache]
         fresh == IsSome(cache) /\ isFresh(readCachedAtMs(Val(cache)), s.nowMs)
     IN \/ \* cache.match rejects
           /\ Throw(h, [read EXCEPT !.path = "match-error", !.cacheError = "match"])
           /\ UNCHANGED tasks
        \/ /\ fresh
           /\ Return(h, responseFromCached(Val(cache), origin, s.rate),
                     [hit EXCEPT !.path = "fresh"])
           /\ UNCHANGED tasks
        \/ /\ IsSome(cache) /\ ~fresh /\ s.request.waitUntil
           \* revalidate() runs up to its await fetch(...)
           /\ \E t \in Tasks :
                /\ FreeTask(t)
                /\ tasks' = [tasks EXCEPT ![t] =
                     [ pc |-> "fetch", cachedRes |-> Val(cache),
                       cachedEtag |-> EtagRead(cache),
                       ifNoneMatch |-> IfNoneMatch(EtagRead(cache)) ]]
           /\ Return(h, responseFromCached(Val(cache), origin, s.rate),
                     [hit EXCEPT !.path = "stale", !.eff.calls = 1, !.eff.sched = 1])
        \/ /\ IsSome(cache) /\ ~fresh /\ ~s.request.waitUntil
           /\ Return(h, responseFromCached(Val(cache), origin, s.rate),
                     [hit EXCEPT !.path = "stale"])
           /\ UNCHANGED tasks
        \/ \* a miss: fetch(GITHUB_API_URL) is called
           /\ ~IsSome(cache)
           /\ handlers' = [handlers EXCEPT ![h] =
                 [s EXCEPT !.pc = "fetch", !.facts = Call(read)]]
           /\ last' = None
           /\ UNCHANGED tasks
  /\ UNCHANGED <<now, ticks, rateLimitStore, hasCache, cache, upstream>>

\* the handler has its response and awaits cache.put(cacheKey, newCached)
AwaitPut(h, newCached, response, facts) ==
  /\ handlers' = [handlers EXCEPT ![h] =
       [ pc |-> "put", request |-> handlers[h].request, nowMs |-> handlers[h].nowMs,
         rate |-> handlers[h].rate, facts |-> facts, newCached |-> newCached,
         response |-> response ]]
  /\ last' = None

\* lines 287-346: fetch settles; upstream.json() is read in the same segment
GetFetched(h) ==
  /\ last = None
  /\ handlers[h].pc = "fetch"
  /\ LET s == handlers[h]
         origin == s.request.origin
         cached == s.facts.cached
         cachedEtag == EtagRead(cached)
     IN \E o \in UpstreamOutcomes(upstream, s.facts.ifNoneMatch) :
          LET facts == [s.facts EXCEPT !.fetched = Some(o)]
          IN IF o.status = 0
             THEN \* fetch rejects
                  Throw(h, [facts EXCEPT !.path = "fetch-error"])
             ELSE IF o.status = 304 /\ IsSome(cached)
             THEN LET body == Val(cached).body
                      lu == Get(Val(cached).headers, LAST_UPDATED_HEADER)
                      lastUpdated == IF IsSome(lu) THEN Val(lu) ELSE ""
                      newCached == toCachedResponse(body, cachedEtag, lastUpdated, now)
                      response == Response(200, body,
                         buildHeadersWithRate(origin, s.rate,
                                              LAST_UPDATED_HEADER :> lastUpdated))
                      done == [facts EXCEPT !.path = "not-modified"]
                  IN IF hasCache THEN AwaitPut(h, newCached, response, done)
                     ELSE Return(h, response, done)
             ELSE IF ~Ok(o)
             THEN IF IsSome(cached)
                  THEN Return(h, responseFromCached(Val(cached), origin, s.rate),
                              [facts EXCEPT !.path = "cached-fallback"])
                  ELSE Return(h, Response(200, JsonArray(<<>>),
                                          buildHeadersWithRate(origin, s.rate, NoExtra)),
                              [facts EXCEPT !.path = "empty"])
             ELSE IF ~o.parsable
             THEN \* upstream.json() rejects
                  Throw(h, [facts EXCEPT !.path = "json-error"])
             ELSE LET simplified == simplifyRepos(Body(o))
                      body == JsonArray(simplified)
                      lastUpdated == getLastUpdatedAt(simplified)
                      etag == EtagOf(o.version)
                      newCached == toCachedResponse(body, etag, lastUpdated, now)
                      response == Response(200, body,
                         buildHeadersWithRate(origin, s.rate,
                                              LAST_UPDATED_HEADER :> lastUpdated))
                      done == [facts EXCEPT !.path = "fetched"]
                  IN IF hasCache THEN AwaitPut(h, newCached, response, done)
                     ELSE Return(h, response, done)
  /\ UNCHANGED <<now, ticks, rateLimitStore, hasCache, cache, upstream, tasks>>

\* lines 302-308 and 332-341: cache.put settles; a rejection is ignored
GetPutDone(h) ==
  /\ last = None
  /\ handlers[h].pc = "put"
  /\ LET s == handlers[h]
     IN \/ /\ cache' = Some(s.newCached)
           /\ Return(h, s.response, [s.facts EXCEPT !.eff.writes = 1])
        \/ /\ cache' = cache
           /\ Return(h, s.response, [s.facts EXCEPT !.cacheError = "put"])
  /\ UNCHANGED <<now, ticks, rateLimitStore, hasCache, upstream, tasks>>

(***************************************************************************)
(* The background revalidation, lines 245-278; every error is caught.      *)
(***************************************************************************)
\* the task's fetch settles with outcome o; readable tells whether the body
\* of cachedRes, which line 282 handed to the client's response, can still be
\* read by cachedRes.clone().text()
TaskSettle(t, o, readable) ==
  /\ last = None
  /\ tasks[t].pc = "fetch"
  /\ LET s == tasks[t]
     IN IF o.status = 0
        THEN tasks' = [tasks EXCEPT ![t] = Ended("abandoned")]
        ELSE IF o.status = 304
        THEN IF readable
             THEN LET body == s.cachedRes.body
                      lu == Get(s.cachedRes.headers, LAST_UPDATED_HEADER)
                      lastUpdated == IF IsSome(lu) THEN Val(lu) ELSE ""
                  IN tasks' = [tasks EXCEPT ![t] =
                       [ pc |-> "put", fetched |-> o,
                         newCached |-> toCachedResponse(body, s.cachedEtag,
                                                        lastUpdated, now) ]]
             ELSE tasks' = [tasks EXCEPT ![t] = Ended("unreadable")]
        ELSE IF ~Ok(o) \/ ~o.parsable
        THEN tasks' = [tasks EXCEPT ![t] = Ended("abandoned")]
        ELSE LET simplified == simplifyRepos(Body(o))
             IN tasks' = [tasks EXCEPT ![t] =
                  [ pc |-> "put", fetched |-> o,
                    newCached |-> toCachedResponse(JsonArray(simplified),
                                     EtagOf(o.version),
                                     getLastUpdatedAt(simplified), now) ]]
  /\ last' = None
  /\ UNCHANGED <<now, ticks, rateLimitStore, hasCache, cache, upstream, handlers>>

TaskFetched(t) ==
  /\ tasks[t].pc = "fetch"
  /\ \E o \in UpstreamOutcomes(upstream, tasks[t].ifNoneMatch) :
       \E readable \in BOOLEAN : TaskSettle(t, o, readable)

\* the task's cache.put settles: the entry is stored, or the write is rejected
TaskPut(t, stored) ==
  /\ last = None
  /\ tasks[t].pc = "put"
  /\ cache' = IF stored THEN Some(tasks[t].newCached) ELSE cache
  /\ tasks' = [tasks EXCEPT ![t] = Ended(IF stored THEN "stored" ELSE "rejected")]
  /\ last' = None
  /\ UNCHANGED <<now, ticks, rateLimitStore, hasCache, upstream, handlers>>

TaskPutDone(t) == \E stored \in BOOLEAN : TaskPut(t, stored)

\* the endpoint with its cache, its upstream and the clock
Next ==
  \/ Tick /\ Quiet
  \/ UpstreamChange /\ Quiet
  \/ Deliver /\ Quiet
  \/ methodNotAllowedHandler(CoreRequests) /\ Quiet
  \/ \E h \in Handlers : GetStart(h, CoreRequests) /\ Quiet
  \/ \E h \in Handlers : GetMatched(h) /\ Quiet
  \/ \E h \in Handlers : GetFetched(h) /\ Quiet
  \/ \E h \in Handlers : GetPutDone(h) /\ Quiet
  \/ \E t \in Tasks : TaskFetched(t) /\ Quiet
  \/ \E t \in Tasks : TaskPutDone(t) /\ Quiet

Spec == Init /\ [][Next]_vars

\* the endpoint under every method and guard header, in one burst: the clock
\* stands still, so no entry turns stale
NextGuard ==
  \/ Deliver /\ Quiet
  \/ methodNotAllowedHandler(GuardRequests) /\ Quiet
  \/ \E h \in Handlers : GetStart(h, GuardRequests) /\ Quiet
  \/ \E h \in Handlers : GetMatched(h) /\ Quiet
  \/ \E h \in Handlers : GetFetched(h) /\ Quiet
  \/ \E h \in Handlers : GetPutDone(h) /\ Quiet

SpecGuard == Init /\ [][NextGuard]_vars

\* the rate limiter alone: requests of every method and client that are answered
\* in their first segment (a GET with a foreign Origin is)
NextRate ==
  \/ Tick /\ Quiet
  \/ Deliver /\ Quiet
  \/ methodNotAllowedHandler(RateRequests) /\ Quiet
  \/ \E h \in Handlers : GetStart(h, RateRequests) /\ Quiet

SpecRate == Init /\ [][NextRate]_vars

\* GET after GET of one client, observed by the history variable
NextRepeat ==
  \/ Tick /\ Observe
  \/ UpstreamChange /\ Observe
  \/ Deliver /\ Observe
  \/ \E h \in Handlers : GetStart(h, RepeatRequests) /\ Observe
  \/ \E h \in Handlers : GetMatched(h) /\ Observe
  \/ \E h \in Handlers : GetFetched(h) /\ Observe
  \/ \E h \in Handlers : GetPutDone(h) /\ Observe
  \/ \E t \in Tasks : TaskFetched(t) /\ Observe
  \/ \E t \in Tasks : TaskPutDone(t) /\ Observe

SpecRepeat == Init /\ [][NextRepeat]_vars

(***************************************************************************)
(* The stale entry under a cooperative upstream: the run starts with an    *)
(* entry written one TTL ago, the clock stands still (a revalidation is    *)
(* short against the TTL), the upstream answers every revalidation with a  *)
(* parsable 2xx or a 304, and the cache accepts every write of a task.     *)
(* Requests are handled and tasks are run to their end (weak fairness).    *)
(* The slot is never empty here, so no handler reaches its own fetch.      *)
(***************************************************************************)
InitLive ==
  /\ now = StartMs + TtlMs
  /\ ticks = 0
  /\ rateLimitStore = [ip \in ClientIds |-> None]
  /\ hasCache = TRUE
  /\ cache = Some(toCachedResponse(JsonArray(simplifyRepos(Payload(1))), EtagOf(1),
                                   getLastUpdatedAt(simplifyRepos(Payload(1))),
                                   StartMs))
  /\ upstream = 1
  /\ handlers = [h \in HandlerSlots |-> Idle]
  /\ tasks = [t \in Tasks |-> Idle]
  /\ last = None
  /\ first = None
  /\ raw = Payload(0)
  /\ out = None

Answered(outcomes) ==
  { o \in outcomes : o.status = 304 \/ (Ok(o) /\ o.parsable) }
TaskAnswered(t) ==
  /\ tasks[t].pc = "fetch"
  /\ \E o \in Answered(UpstreamOutcomes(upstream, tasks[t].ifNoneMatch)) :
       \E readable \in BOOLEAN : TaskSettle(t, o, readable)

NextLive ==
  \/ UpstreamChange /\ Quiet
  \/ Deliver /\ Quiet
  \/ \E h \in Handlers : GetStart(h, RepeatRequests) /\ Quiet
  \/ \E h \in Handlers : GetMatched(h) /\ Quiet
  \/ \E t \in Tasks : TaskAnswered(t) /\ Quiet
  \/ \E t \in Tasks : TaskPut(t, TRUE) /\ Quiet

Fairness ==
  /\ WF_vars(Deliver /\ Quiet)
  /\ WF_vars(\E h \in Handlers : GetStart(h, RepeatRequests) /\ Quiet)
  /\ WF_vars(\E h \in Handlers : GetMatched(h) /\ Quiet)
  /\ WF_vars(\E t \in Tasks : TaskAnswered(t) /\ Quiet)
  /\ WF_vars(\E t \in Tasks : TaskPut(t, TRUE) /\ Quiet)

SpecLive == InitLive /\ [][NextLive]_vars /\ Fairness

(***************************************************************************)
(* simplifyRepos on its own: one raw body is normalised. The bodies are     *)
(* arrays of up to MaxFill well-formed repositories followed by one element *)
(* under test, the empty array, and the non-array bodies. The element       *)
(* under test takes every pair of raw values for name and html_url, or is   *)
(* a well-formed repository with one other property set to a raw value, or  *)
(* is not an object.                                                        *)
(***************************************************************************)
RawValues ==
  { JUndef, JNull, JStr(""), JStr("x"), JNum(0), JNum(3), JBool(FALSE), JBool(TRUE),
    JArr(<<>>), JArr(<<JStr("a")>>), JObj, JOpaque }
OtherProps ==
  { "homepage", "language", "description", "topics", "fork", "archived", "has_pages",
    "stargazers_count", "forks_count", "updated_at" }
Named == [name |-> JStr("x"), html_url |-> JStr("y")]
RawElems ==
  { Elem("object", [name |-> a, html_url |-> b]) : a \in RawValues, b \in RawValues }
  \cup { Elem("object", (k :> v) @@ Named) : k \in OtherProps, v \in RawValues }
  \cup { Elem(tag, <<>>) : tag \in {"null", "number", "string", "boolean", "array"} }
Fill(n) == [i \in 1..n |-> Payload(1).items[1]]
RawPayloads ==
  { [isArray |-> TRUE, kind |-> "array", items |-> Fill(n) \o <<e>>] :
      n \in 0..MaxFill, e \in RawElems }
  \cup { [isArray |-> TRUE, kind |-> "array", items |-> <<>>] }
  \cup { [isArray |-> FALSE, kind |-> k, items |-> <<>>] :
           k \in {"null", "object", "string", "number"} }

InitNormalize ==
  /\ now = StartMs
  /\ ticks = 0
  /\ rateLimitStore = [ip \in ClientIds |-> None]
  /\ hasCache = TRUE
  /\ cache = None
  /\ upstream = 1
  /\ handlers = [h \in HandlerSlots |-> Idle]
  /\ tasks = [t \in Tasks |-> Idle]
  /\ last = None
  /\ first = None
  /\ raw \in RawPayloads
  /\ out = None

\* simplifyRepos(raw) returns or throws
Normalize ==
  /\ out = None
  /\ out' = IF SimplifyThrows(raw)
            THEN Some([threw |-> TRUE, repos |-> <<>>])
            ELSE Some([threw |-> FALSE, repos |-> simplifyRepos(raw)])
  /\ UNCHANGED <<now, ticks, rateLimitStore, hasCache, cache, upstream, handlers,
                 tasks, last, first, raw>>

NextNormalize == Normalize
SpecNormalize == InitNormalize /\ [][NextNormalize]_vars

(***************************************************************************)
(* The choice of the rate-limit bucket: requests with every shape of the   *)
(* client address headers, all rejected in their first segment; the clock  *)
(* stands still.                                                           *)
(***************************************************************************)
NextClient ==
  \/ Deliver /\ Quiet
  \/ methodNotAllowedHandler(ClientRequests) /\ Quiet
  \/ \E h \in Handlers : GetStart(h, ClientRequests) /\ Quiet

SpecClient == Init /\ [][NextClient]_vars

(***************************************************************************)
(* Two GET handlers in flight at once: a second request arrives while the  *)
(* first is suspended at an await, from the same client or from another,   *)
(* and the awaits settle in any order.                                     *)
(***************************************************************************)
ConcurrentSlots == {1, 2}
NoHook == [Plain EXCEPT !.waitUntil = FALSE]
ConcurrentRequests ==
  { NoHook,
    [NoHook EXCEPT !.method = "POST"],
    [NoHook EXCEPT !.cfIp = Some(<<"198.51.100.7">>), !.origin = Some(ForeignOrigin)] }

InitConcurrent ==
  /\ now = StartMs
  /\ ticks = 0
  /\ rateLimitStore = [ip \in ClientIds |-> None]
  /\ hasCache = FALSE
  /\ cache = None
  /\ upstream = 1
  /\ handlers = [h \in ConcurrentSlots |-> Idle]
  /\ tasks = [t \in Tasks |-> Idle]
  /\ last = None
  /\ first = None
  /\ raw = Payload(0)
  /\ out = None

InitRace ==
  /\ now = StartMs
  /\ ticks = 0
  /\ rateLimitStore = [ip \in ClientIds |-> None]
  /\ hasCache = TRUE
  /\ cache = None
  /\ upstream = 1
  /\ handlers = [h \in ConcurrentSlots |-> Idle]
  /\ tasks = [t \in Tasks |-> Idle]
  /\ last = None
  /\ first = None
  /\ raw = Payload(0)
  /\ out = None

\* the rate limiter under overlapping requests: the clock advances, the
\* upstream content stays as it is, and there is no edge cache, so that an
\* admitted GET is suspended at its upstream call
NextConcurrent ==
  \/ Tick /\ Quiet
  \/ Deliver /\ Quiet
  \/ methodNotAllowedHandler(ConcurrentRequests) /\ Quiet
  \/ \E h \in Handlers : GetStart(h, ConcurrentRequests) /\ Quiet
  \/ \E h \in Handlers : GetFetched(h) /\ Quiet

SpecConcurrent == InitConcurrent /\ [][NextConcurrent]_vars

\* the cache writes of overlapping requests: the upstream content changes,
\* the clock stands still
NextRace ==
  \/ UpstreamChange /\ Quiet
  \/ Deliver /\ Quiet
  \/ \E h \in Handlers : GetStart(h, {NoHook}) /\ Quiet
  \/ \E h \in Handlers : GetMatched(h) /\ Quiet
  \/ \E h \in Handlers : GetFetched(h) /\ Quiet
  \/ \E h \in Handlers : GetPutDone(h) /\ Quiet

SpecRace == InitRace /\ [][NextRace]_vars

(***************************************************************************)
(* Properties. An exchange is judged in the state it completes in, where   *)
(* last holds it.                                                          *)
(***************************************************************************)
Completed == last # None

\* the request got past the origin guard and the rate limiter
Admitted(x) ==
  /\ x.request.method = "GET"
  /\ ~OriginForbidden(x.request.origin)
  /\ ~CrossSite(x.request.secFetchSite)
  /\ ~x.rate.blocked

\* the handler returned a response with this status
Returned(x, status) == ~x.thrown /\ x.response.status = status

\* C1: an admitted GET that finds no cache entry and whose upstream call fails
\* (a rejected fetch or a non-2xx response) completes with status 200 and
\* body [], never with an unhandled error.
C1_UpstreamFailureGivesEmptyList ==
  Completed =>
    LET x == Val(last)
    IN (/\ Admitted(x)
        /\ x.cached = None
        /\ IsSome(x.fetched)
        /\ (Val(x.fetched).status = 0 \/ ~Ok(Val(x.fetched))))
       => Returned(x, 200) /\ x.response.body = JsonArray(<<>>)

\* the case of C1: an admitted GET without a cache entry whose fetch rejected
C1_FetchRejectedWithoutEntry ==
  /\ Completed
  /\ Admitted(Val(last))
  /\ Val(last).cached = None
  /\ IsSome(Val(last).fetched)
  /\ Val(Val(last).fetched).status = 0

\* C2: a failure of the edge cache, on cache.match or on cache.put, is
\* swallowed: the admitted GET still completes with a 200 response and the
\* entry is not persisted.
C2_CacheFailureIsSwallowed ==
  Completed =>
    LET x == Val(last)
    IN (Admitted(x) /\ x.cacheError # "")
       => Returned(x, 200) /\ x.eff.writes = 0

\* the case of C2: cache.match rejected on an admitted GET
C2_MatchRejected ==
  /\ Completed
  /\ Admitted(Val(last))
  /\ Val(last).cacheError = "match"

\* a later GET that returned 200, with the first such GET of the run before it
Second(x) ==
  /\ x.request.method = "GET"
  /\ Returned(x, 200)
  /\ IsSome(x.after)

\* C3 as stated: with a cache store that starts empty, a GET that returns
\* within the TTL window of the first GET, the upstream content unchanged
\* between them, returns the first GET's body, and the two make one upstream
\* call in total.
C3_TwoGetsOneUpstreamCall ==
  Completed =>
    LET x == Val(last)
    IN (/\ Second(x)
        /\ hasCache
        /\ Val(x.after).miss
        /\ x.nowMs - Val(x.after).nowMs < TtlMs
        /\ x.version = Val(x.after).version)
       => /\ x.response.body = Val(x.after).body
          /\ Val(x.after).calls + x.eff.calls = 1

\* C3: when the first GET found no entry, fetched a parsable 2xx answer and
\* its cache write succeeded, a GET that starts after it has returned, within
\* the TTL of that write and with the upstream content unchanged, returns the
\* same body and makes no upstream call: one call in total, the first miss.
C3_SecondGetServedFromFirstWrite ==
  Completed =>
    LET x == Val(last)
    IN (/\ Second(x)
        /\ Val(x.after).miss
        /\ IsSome(Val(x.after).storedAt)
        /\ x.nowMs - Val(Val(x.after).storedAt) < TtlMs
        /\ x.version = Val(x.after).version)
       => /\ x.response.body = Val(x.after).body
          /\ Val(x.after).calls = 1
          /\ x.eff.calls = 0
          /\ x.eff.writes = 0

\* the case of C3: a second GET answered from the entry the first one wrote,
\* some time after that write
C3_SecondGetWithinTtl ==
  /\ Completed
  /\ Second(Val(last))
  /\ Val(Val(last).after).miss
  /\ IsSome(Val(Val(last).after).storedAt)
  /\ Val(last).nowMs > Val(Val(Val(last).after).storedAt)
  /\ Val(last).nowMs - Val(Val(Val(last).after).storedAt) < TtlMs
  /\ Val(last).version = Val(Val(last).after).version

\* C4: for the limit L and one client, a call made when the client has no
\* window or at a time now >= resetAt opens a window: count = 1,
\* remaining = L - 1, blocked = false, resetAt = now + window. The k-th call
\* within a window returns blocked = false and remaining = L - k while
\* k <= L, and blocked = true and remaining = 0 when k > L. (The store's
\* count is the index of the call within its window.)
C4_Call ==
  last' # None =>
    LET x == Val(last')
        ip == getClientIp(x.request)
        before == rateLimitStore[ip]
        after == rateLimitStore'[ip]
        L == RATE_LIMIT_MAX
    IN /\ x.rate.limit = L
       /\ IsSome(after)
       /\ x.rate.resetAt = Val(after).resetAt
       /\ IF before = None
          THEN Val(after) = [count |-> 1, resetAt |-> now + RATE_LIMIT_WINDOW_MS]
          ELSE IF now >= Val(before).resetAt
          THEN Val(after) = [count |-> 1, resetAt |-> now + RATE_LIMIT_WINDOW_MS]
          ELSE Val(after) = [count |-> Val(before).count + 1,
                             resetAt |-> Val(before).resetAt]
       /\ LET k == Val(after).count
          IN IF k <= L
             THEN ~x.rate.blocked /\ x.rate.remaining = L - k
             ELSE x.rate.blocked /\ x.rate.remaining = 0
C4_RateLimitWindow == [][C4_Call]_vars

\* the case of C4: a call blocked in a window that was opened after an
\* earlier window had run out
C4_BlockedInLaterWindow ==
  /\ Completed
  /\ Val(last).rate.blocked
  /\ Val(last).rate.remaining = 0
  /\ Val(last).rate.resetAt > StartMs + RATE_LIMIT_WINDOW_MS

\* C5 as stated: a request whose rate-limit check returns blocked = true is
\* answered 429 and causes no cache read, no cache write and no upstream call.
C5_BlockedIsAnswered429 ==
  Completed =>
    LET x == Val(last)
    IN x.rate.blocked => Returned(x, 429) /\ x.eff = NoEffect

\* C5: a request whose rate-limit check returns blocked = true causes no cache
\* read, no cache write and no upstream call; it is answered 405 when its
\* method is not GET, 403 when it is a GET the origin guard rejects, and 429
\* otherwise.
C5_BlockedShortCircuits ==
  Completed =>
    LET x == Val(last)
        status == IF x.request.method # "GET" THEN 405
                  ELSE IF OriginForbidden(x.request.origin)
                          \/ CrossSite(x.request.secFetchSite) THEN 403
                  ELSE 429
    IN x.rate.blocked => Returned(x, status) /\ x.eff = NoEffect

\* the case of C5: a blocked GET that passes the origin guard
C5_BlockedGetPastGuard ==
  /\ Completed
  /\ Val(last).rate.blocked
  /\ Val(last).request.method = "GET"
  /\ ~OriginForbidden(Val(last).request.origin)
  /\ ~CrossSite(Val(last).request.secFetchSite)

\* C6: every response the handler returns, on every path (200 fresh, stale,
\* fetched, empty fallback; 403; 405; 429), carries X-RateLimit-Limit,
\* X-RateLimit-Remaining and X-RateLimit-Reset with the values the rate-limit
\* check of that request returned (Reset in seconds, rounded up).
C6_RateHeadersOnEveryResponse ==
  Completed =>
    LET x == Val(last)
        headers == x.response.headers
    IN ~x.thrown =>
         /\ Get(headers, "X-RateLimit-Limit") = Some(ToString(x.rate.limit))
         /\ Get(headers, "X-RateLimit-Remaining") = Some(ToString(x.rate.remaining))
         /\ \E seconds \in { x.rate.resetAt \div 1000, x.rate.resetAt \div 1000 + 1 } :
              /\ seconds * 1000 >= x.rate.resetAt
              /\ (seconds - 1) * 1000 < x.rate.resetAt
              /\ Get(headers, "X-RateLimit-Reset") = Some(ToString(seconds))

\* the case of C6: a response served from a stale entry to a client that has
\* used up part of its window
C6_StaleResponseRated ==
  /\ Completed
  /\ Val(last).path = "stale"
  /\ Val(last).rate.remaining < RATE_LIMIT_MAX - 1

\* what the guard is to reject
MustForbid(request) ==
  \/ IsSome(request.origin) /\ Val(request.origin) # SiteOrigin
  \/ request.secFetchSite = Some("cross-site")

\* C7: a GET is answered 403 with body {"error":"Forbidden"} exactly when its
\* Origin header is present and differs from the site's origin or its
\* Sec-Fetch-Site is "cross-site"; a 403 causes no cache read, no cache write
\* and no upstream call.
C7_ForbiddenExactlyWhenCrossOrigin ==
  Completed =>
    LET x == Val(last)
    IN x.request.method = "GET" =>
         /\ Returned(x, 403) <=> MustForbid(x.request)
         /\ Returned(x, 403) =>
              x.response.body = JsonError("Forbidden") /\ x.eff = NoEffect

\* the case of C7: a GET with an empty Origin header is not answered 403
C7_EmptyOriginPasses ==
  /\ Completed
  /\ Val(last).request.method = "GET"
  /\ Val(last).request.origin = Some("")
  /\ ~Returned(Val(last), 403)

\* C8: on every response, for every method and status, Access-Control-Allow-
\* Origin and Vary: Origin are present only if the request had an Origin
\* header that equals the site's origin and the guard did not reject the
\* request; the header never echoes a foreign origin.
C8_AllowOriginOnlyWhenAccepted ==
  Completed =>
    LET x == Val(last)
        headers == x.response.headers
        allowOrigin == Get(headers, "Access-Control-Allow-Origin")
    IN ~x.thrown =>
         /\ (IsSome(allowOrigin) \/ IsSome(Get(headers, "Vary")))
              => x.request.origin = Some(SiteOrigin) /\ x.response.status # 403
         /\ allowOrigin # Some(ForeignOrigin)

\* the case of C8: a 405 whose Access-Control-Allow-Origin is a foreign origin
C8_ForeignOriginEchoed ==
  /\ Completed
  /\ Returned(Val(last), 405)
  /\ Get(Val(last).response.headers, "Access-Control-Allow-Origin")
       = Some(ForeignOrigin)

\* C9: every request whose method is not GET is answered 405 with Allow: GET
\* and body {"error":"Method Not Allowed"}, causes no cache read, no cache
\* write and no upstream call, and adds exactly one to the caller's count in
\* the caller's current window (a count that starts from 0 when the caller has
\* no window or the window has run out); no other client's count changes.
C9_Call ==
  last' # None =>
    LET x == Val(last')
        ip == getClientIp(x.request)
        before == rateLimitStore[ip]
        live == IF before = None THEN 0
                ELSE IF Val(before).resetAt <= now THEN 0
                ELSE Val(before).count
    IN x.request.method # "GET" =>
         /\ Returned(x, 405)
         /\ Get(x.response.headers, "Allow") = Some("GET")
         /\ x.response.body = JsonError("Method Not Allowed")
         /\ x.eff = NoEffect
         /\ cache' = cache /\ handlers' = handlers /\ tasks' = tasks
         /\ IsSome(rateLimitStore'[ip])
         /\ Val(rateLimitStore'[ip]).count = live + 1
         /\ \A other \in DOMAIN rateLimitStore \ {ip} :
              rateLimitStore'[other] = rateLimitStore[other]
C9_NonGetIs405AndCounts == [][C9_Call]_vars

\* the case of C9: a non-GET request answered while the caller is blocked
C9_NonGetOverLimit ==
  /\ Completed
  /\ Val(last).request.method # "GET"
  /\ Val(last).rate.blocked

\* C10: an admitted GET that reads a cache entry whose age, the request's time
\* less the entry's cachedAtMs, is below the TTL returns 200 with that entry's
\* body, makes no upstream call, schedules no revalidation and leaves the
\* entry unchanged.
C10_FreshEntryIsServed ==
  Completed =>
    LET x == Val(last)
    IN (/\ Admitted(x)
        /\ IsSome(x.cached)
        /\ \E cachedAtMs \in ClockValues :
             /\ Get(Val(x.cached).headers, CACHED_AT_HEADER) = Some(ToString(cachedAtMs))
             /\ x.nowMs - cachedAtMs < TtlMs)
       => /\ Returned(x, 200)
          /\ x.response.body = Val(x.cached).body
          /\ x.eff.calls = 0
          /\ x.eff.sched = 0
          /\ x.eff.writes = 0
          /\ cache = x.cached

\* the case of C10: an entry read some time after it was written, within the TTL
C10_FreshEntryAged ==
  /\ Completed
  /\ Admitted(Val(last))
  /\ IsSome(Val(last).cached)
  /\ Val(last).path = "fresh"
  /\ Val(last).nowMs > readCachedAtMs(Val(Val(last).cached))

\* the age of the entry x read, in ms at the request's time, is at least the TTL
ReadStale(x) ==
  /\ IsSome(x.cached)
  /\ \E cachedAtMs \in ClockValues :
       /\ Get(Val(x.cached).headers, CACHED_AT_HEADER) = Some(ToString(cachedAtMs))
       /\ x.nowMs - cachedAtMs >= TtlMs

\* C11: an admitted GET that reads a stale entry (age >= TTL) returns 200 with
\* the cached body without having waited for an upstream call to settle; with
\* waitUntil it submits exactly one revalidation, whose upstream call is then
\* in flight, and without waitUntil it submits none and makes no upstream call.
C11_StaleIsServedAtOnce ==
  Completed =>
    LET x == Val(last)
    IN (Admitted(x) /\ ReadStale(x))
       => /\ Returned(x, 200)
          /\ x.response.body = Val(x.cached).body
          /\ x.fetched = None
          /\ x.eff.writes = 0
          /\ cache = x.cached
          /\ IF x.request.waitUntil
             THEN /\ x.eff.sched = 1
                  /\ x.eff.calls = 1
                  /\ \E t \in Tasks :
                       tasks[t].pc = "fetch" /\ tasks[t].cachedRes = Val(x.cached)
             ELSE x.eff.sched = 0 /\ x.eff.calls = 0

\* the case of C11: a stale entry served with a revalidation submitted
C11_StaleServedWithRevalidation ==
  /\ Completed
  /\ Admitted(Val(last))
  /\ ReadStale(Val(last))
  /\ Val(last).request.waitUntil
  /\ Val(last).eff.sched = 1

\* the case of C11 without the background hook
C11_StaleServedWithoutHook ==
  /\ Completed
  /\ Admitted(Val(last))
  /\ ReadStale(Val(last))
  /\ ~Val(last).request.waitUntil

\* the upstream's 304 to a call that carries the current content's validator
NotModified == [status |-> 304, version |-> upstream, parsable |-> FALSE]

\* C12: when a revalidation's conditional request is answered 304, the entry
\* it goes on to write has the body, the ETag and the lastUpdated of the entry
\* it read and the current time as its cachedAtMs.
C12_Settle ==
  \A t \in Tasks :
    (/\ tasks[t].pc = "fetch"
     /\ NotModified \in UpstreamOutcomes(upstream, tasks[t].ifNoneMatch)
     /\ \E readable \in BOOLEAN : TaskSettle(t, NotModified, readable))
    => /\ tasks'[t].pc = "put"
       /\ tasks'[t].newCached.body = tasks[t].cachedRes.body
       /\ Get(tasks'[t].newCached.headers, "ETag")
            = Get(tasks[t].cachedRes.headers, "ETag")
       /\ Get(tasks'[t].newCached.headers, LAST_UPDATED_HEADER)
            = Get(tasks[t].cachedRes.headers, LAST_UPDATED_HEADER)
       /\ Get(tasks'[t].newCached.headers, CACHED_AT_HEADER) = Some(ToString(now))
C12_NotModifiedRefreshesEntry == [][C12_Settle]_vars

\* the case of C12: a revalidation in flight whose validator matches the
\* upstream's current content, some time after the entry was written
C12_RevalidationToBeAnswered304 ==
  \E t \in Tasks :
    /\ tasks[t].pc = "fetch"
    /\ NotModified \in UpstreamOutcomes(upstream, tasks[t].ifNoneMatch)
    /\ readCachedAtMs(tasks[t].cachedRes) < now

\* an upstream outcome that is a failure to a revalidation: a network error, a
\* status that is neither 2xx nor 304, or a 2xx payload that does not parse
Failure(o) ==
  \/ o.status = 0
  \/ o.status # 304 /\ (o.status < 200 \/ o.status > 299)
  \/ o.status >= 200 /\ o.status <= 299 /\ ~o.parsable

\* C13: a revalidation whose upstream call fails (network error, a status
\* neither 2xx nor 304, an unparsable payload) ends without a cache write, and
\* one whose cache.put is rejected leaves the entry as it was; only a 304 or a
\* parsable 2xx answer takes a revalidation to its write; no step of a
\* revalidation completes or fails a request.
C13_TaskStep ==
  \A t \in Tasks :
    /\ \A o \in UpstreamOutcomes(upstream, None) :
         (/\ Failure(o)
          /\ tasks[t].pc = "fetch"
          /\ \E readable \in BOOLEAN : TaskSettle(t, o, readable))
         => tasks'[t].pc = "idle" /\ cache' = cache
    /\ (tasks[t].pc = "fetch" /\ tasks'[t].pc = "put")
         => ~Failure(tasks'[t].fetched)
    /\ (tasks[t].pc = "fetch" /\ tasks'[t].pc = "idle") => cache' = cache
    /\ (tasks[t].pc = "put" /\ tasks'[t] = Ended("rejected")) => cache' = cache
    /\ (tasks[t].pc # "idle" /\ tasks'[t] # tasks[t])
         => last' = None /\ handlers' = handlers
C13_TaskFailuresAreSilent == [][C13_TaskStep]_vars

\* the case of C13: a revalidation abandoned after its fetch, the stale entry
\* it was to replace still in the cache
C13_RevalidationAbandoned ==
  /\ \E t \in Tasks : tasks[t] = Ended("abandoned")
  /\ IsSome(cache)
  /\ ~isFresh(readCachedAtMs(Val(cache)), now)

\* the case of C13 in which the cache write is rejected
C13_WriteRejected == \E t \in Tasks : tasks[t] = Ended("rejected")

EntryStale == IsSome(cache) /\ ~isFresh(readCachedAtMs(Val(cache)), now)
EntryFresh == IsSome(cache) /\ isFresh(readCachedAtMs(Val(cache)), now)
\* a GET has read the stale entry and submitted a revalidation
Revalidating == EntryStale /\ \E t \in Tasks : tasks[t].pc = "fetch"

CarriesEtagOf(ifNoneMatch, entry) ==
  IF IsSome(entry) /\ "ETag" \in DOMAIN Val(entry).headers
  THEN ifNoneMatch = Some(Val(entry).headers["ETag"])
  ELSE ifNoneMatch = None
\* the entry built from a 2xx answer: the normalised payload of that answer
\* under the ETag of that answer
Replaces(newCached, o) ==
  /\ newCached.body = JsonArray(simplifyRepos(Payload(o.version)))
  /\ IF IsSome(EtagOf(o.version))
     THEN "ETag" \in DOMAIN newCached.headers
          /\ newCached.headers["ETag"] = Val(EtagOf(o.version))
     ELSE "ETag" \notin DOMAIN newCached.headers

\* C16: every upstream call in flight carries If-None-Match exactly when the
\* entry its request read has an ETag, with that ETag as value; the entry
\* built after a 2xx answer is the normalised payload of the answer with the
\* answer's ETag (none if it has none), never the old one.
C16_ConditionalCallAndFullReplacement ==
  /\ \A h \in Handlers :
       /\ handlers[h].pc = "fetch"
            => CarriesEtagOf(handlers[h].facts.ifNoneMatch, handlers[h].facts.cached)
       /\ handlers[h].pc = "put" /\ Ok(Val(handlers[h].facts.fetched))
            => Replaces(handlers[h].newCached, Val(handlers[h].facts.fetched))
  /\ \A t \in Tasks :
       /\ tasks[t].pc = "fetch"
            => CarriesEtagOf(tasks[t].ifNoneMatch, Some(tasks[t].cachedRes))
       /\ tasks[t].pc = "put" /\ Ok(tasks[t].fetched)
            => Replaces(tasks[t].newCached, tasks[t].fetched)

\* an entry with an ETag is being replaced after a 2xx answer without one
C16_EtagDroppedOnReplacement ==
  /\ IsSome(cache) /\ "ETag" \in DOMAIN Val(cache).headers
  /\ \E t \in Tasks :
       /\ tasks[t].pc = "put" /\ Ok(tasks[t].fetched)
       /\ "ETag" \notin DOMAIN tasks[t].newCached.headers
\* a revalidation in flight carries the ETag of the entry read
C16_ConditionalCallInFlight ==
  \E t \in Tasks : tasks[t].pc = "fetch" /\ IsSome(tasks[t].ifNoneMatch)
\* an entry without ETag is revalidated by an unconditional call
C16_UnconditionalRevalidation ==
  \E t \in Tasks : tasks[t].pc = "fetch" /\ tasks[t].ifNoneMatch = None

\* the repository under test in raw, and what came out for it
Tested == raw.items[Len(raw.items)]
Normalized == out # None /\ ~Val(out).threw
TestedOut == Val(out).repos[Len(Val(out).repos)]
\* the element under test was kept: the fillers in front of it always are
TestedKept ==
  /\ Normalized /\ raw.isArray /\ raw.items # <<>>
  /\ Len(Val(out).repos) = Len(raw.items)
Missing(repo, k) == k \notin DOMAIN repo.f \/ repo.f[k].t \in {"undefined", "null"}

\* C17: for every raw payload normalisation returns; every element of the
\* output has a non-empty name and a non-empty url; an element whose name or
\* html_url is missing produces no output element; a non-array gives <<>>.
C17_NamesAndUrlsNonEmpty ==
  out # None =>
    /\ ~Val(out).threw
    /\ \A i \in DOMAIN Val(out).repos :
         Val(out).repos[i].name # "" /\ Val(out).repos[i].url # ""
    /\ ~raw.isArray => Val(out).repos = <<>>
    /\ raw.isArray /\ raw.items # <<>>
       /\ (Missing(Tested, "name") \/ Missing(Tested, "html_url"))
         => Len(Val(out).repos) = Len(raw.items) - 1

\* the case of C17: a repository whose name is the empty array was kept
C17_EmptyArrayNameKept ==
  /\ TestedKept
  /\ Prop(Tested, "name") = JArr(<<>>)
  /\ TestedOut.name = ""
\* normalisation threw on a name that cannot be converted to a string
C17_NormalizeThrew ==
  out # None /\ Val(out).threw /\ Prop(Tested, "name") = JOpaque

\* the type the normalised field of a raw property is declared with, its
\* zero-value, and the normalised field itself
Expected(k) ==
  CASE k \in {"homepage", "language", "description", "updated_at"} -> "string"
    [] k \in {"fork", "archived", "has_pages"} -> "boolean"
    [] k \in {"stargazers_count", "forks_count"} -> "number"
    [] OTHER -> "array"
IsZero(repo, k) ==
  CASE k = "homepage" -> repo.homepage = ""
    [] k = "language" -> repo.language = ""
    [] k = "description" -> repo.description = ""
    [] k = "updated_at" -> repo.updatedAt = ""
    [] k = "fork" -> repo.isFork = FALSE
    [] k = "archived" -> repo.isArchived = FALSE
    [] k = "has_pages" -> repo.hasPages = FALSE
    [] k = "stargazers_count" -> repo.stars = 0
    [] k = "forks_count" -> repo.forks = 0
    [] OTHER -> repo.topics = <<>>

\* C18: for every kept raw repository and every field other than name and
\* url, a source property that is absent or of the wrong type gives the
\* zero-value of the field ("" / FALSE / 0 / <<>>); nothing is coerced.
C18_ZeroValueWhenAbsentOrWrongType ==
  TestedKept =>
    \A k \in OtherProps :
      Prop(Tested, k).t # Expected(k) => IsZero(TestedOut, k)

\* the case of C18: a kept repository without language
C18_AbsentLanguageIsOther ==
  /\ TestedKept
  /\ Missing(Tested, "language")
  /\ TestedOut.language = "Other"
\* a string for fork and a number for homepage are coerced
C18_WrongTypeCoerced ==
  /\ TestedKept
  /\ \/ Prop(Tested, "fork") = JStr("x") /\ TestedOut.isFork
     \/ Prop(Tested, "homepage") = JNum(3) /\ TestedOut.homepage = "3"
\* a string for stargazers_count gives 0 stars
C18_WrongTypedStarsAreZero ==
  /\ TestedKept
  /\ Prop(Tested, "stargazers_count") = JStr("x")
  /\ TestedOut.stars = 0

\* the entries being written after a 2xx answer, by a handler or by a task
WrittenAfter2xx ==
  { handlers[h].newCached : h \in { g \in Handlers :
      handlers[g].pc = "put" /\ Ok(Val(handlers[g].facts.fetched)) } }
  \cup { tasks[t].newCached : t \in { u \in Tasks :
      tasks[u].pc = "put" /\ Ok(tasks[u].fetched) } }
LastUpdatedOf(entry) == entry.headers[LAST_UPDATED_HEADER]
UpdatedAts(entry) ==
  { entry.body.repos[i].updatedAt : i \in DOMAIN entry.body.repos } \ {""}
\* the instants Date.parse gives for the dates that parse
Instants(dates) ==
  { Val(DateParse(d)) : d \in { e \in dates : IsSome(DateParse(e)) } }
Latest(S) == CHOOSE x \in S : \A y \in S : y <= x
Later(d, e) ==
  /\ IsSome(DateParse(d)) /\ IsSome(DateParse(e))
  /\ Val(DateParse(d)) > Val(DateParse(e))

FirstEntry(xff) ==
  CASE xff = Some(<<"203.0.113.9">>) -> "203.0.113.9"
    [] xff = Some(<<"203.0.113.9", " ", ",", " ", "10.0.0.1">>) -> "203.0.113.9"
    [] xff = Some(<<"10.0.0.1", ",", "203.0.113.9">>) -> "10.0.0.1"
    [] xff = Some(<<" ", "203.0.113.9", " ", ",", "10.0.0.1">>) -> "203.0.113.9"
    [] OTHER -> ""
Bucket(request) ==
  IF request.cfIp = Some(<<"198.51.100.7">>) THEN "198.51.100.7"
  ELSE IF FirstEntry(request.xff) # "" THEN FirstEntry(request.xff)
  ELSE "unknown"
Count(store, ip) == IF IsSome(store[ip]) THEN Val(store[ip]).count ELSE 0
C20_Call ==
  last' # None =>
    LET b == Bucket(Val(last').request)
    IN /\ b \in DOMAIN rateLimitStore
       /\ Count(rateLimitStore', b) = Count(rateLimitStore, b) + 1
       /\ \A ip \in DOMAIN rateLimitStore \ {b} :
            rateLimitStore'[ip] = rateLimitStore[ip]

\* C20: a request is counted in the bucket of its CF-Connecting-IP when that
\* header is present and non-empty, otherwise in the bucket of the trimmed
\* first entry of X-Forwarded-For when that entry is non-empty, otherwise in
\* "unknown", and in no other bucket; so requests with one CF-Connecting-IP
\* share a bucket whatever their X-Forwarded-For.
C20_BucketOfRequest == [][C20_Call]_vars

\* the case of C20: the second request of one CF-Connecting-IP, with an
\* X-Forwarded-For of its own, is counted in the bucket of the first
C20_SameCfIpSharesBucket ==
  /\ Completed
  /\ Val(last).request.cfIp = Some(<<"198.51.100.7">>)
  /\ Val(last).request.xff = Some(<<"10.0.0.1", ",", "203.0.113.9">>)
  /\ Count(rateLimitStore, "198.51.100.7") = 2
  /\ Count(rateLimitStore, "10.0.0.1") = 0
\* an empty CF-Connecting-IP and an empty first entry fall back to "unknown"
C20_FallsBackToUnknown ==
  /\ Completed
  /\ Val(last).request.cfIp = Some(<<>>)
  /\ Val(last).request.xff = Some(<<" ", ",", "10.0.0.1">>)
  /\ Count(rateLimitStore, "unknown") = 1

\* the request that arrives in a step, if one does: it is answered in its
\* first segment (403, 405, 429) or takes a free handler slot
Arrived ==
  IF last' # None /\ Val(last').path \in {"403", "405", "429"}
  THEN Some(Val(last').request)
  ELSE IF \E h \in Handlers : handlers[h].pc = "idle" /\ handlers'[h].pc # "idle"
  THEN Some(handlers'[CHOOSE h \in Handlers :
                        handlers[h].pc = "idle" /\ handlers'[h].pc # "idle"].request)
  ELSE None
C21_Step ==
  IF Arrived = None THEN rateLimitStore' = rateLimitStore
  ELSE LET ip == Bucket(Val(Arrived))
           before == rateLimitStore[ip]
           after == rateLimitStore'[ip]
       IN /\ IsSome(after)
          /\ IF before = None \/ Val(before).resetAt <= now
             THEN Val(after) = [count |-> 1, resetAt |-> now + RATE_LIMIT_WINDOW_MS]
             ELSE Val(after) = [ count |-> Val(before).count + 1,
                                 resetAt |-> Val(before).resetAt ]
          /\ \A other \in DOMAIN rateLimitStore \ {ip} :
               rateLimitStore'[other] = rateLimitStore[other]

\* C21: every request, whatever its method and outcome, changes the store in
\* one way: its client's entry is counted up by one, or set to count 1 with a
\* new window when absent or expired, every other entry is left alone, and no
\* later segment of a handler touches the store; so k overlapping requests of
\* one client inside one window leave its count at k and resetAt as it was.
C21_OneCountPerRequest == [][C21_Step]_vars

\* the case of C21: two GETs of one client suspended at their upstream calls
\* and a third request of that client counted while they wait
C21_ThreeOverlappingCounted ==
  /\ \A h \in Handlers : handlers[h].pc = "fetch" /\ handlers[h].request = NoHook
  /\ rateLimitStore["unknown"] = Some([count |-> 3,
                                       resetAt |-> StartMs + RATE_LIMIT_WINDOW_MS])
  /\ last # None /\ Val(last).path = "405"

\* the upstream version whose normalised payload is the body of an entry
VersionOf(entry) ==
  CHOOSE v \in 1..MaxVersion : entry.body = JsonArray(simplifyRepos(Payload(v)))
C22_Write ==
  (IsSome(cache) /\ cache' # cache)
    => VersionOf(Val(cache')) >= VersionOf(Val(cache))

C23_OwnCallAfterMiss ==
  \E h \in Handlers :
    handlers[h].pc = "fetch" /\ hasCache /\ handlers[h].facts.eff.reads = 1

\* the bodies a 2xx upstream answer normalises to
Normalisations == { JsonArray(simplifyRepos(Payload(v))) : v \in 1..MaxVersion }

\* C24: in every reachable state the body of the cache entry is the
\* normalisation of the payload of some 2xx upstream answer, never the empty
\* list of the fallback nor an error body; the entry about to be written by a
\* handler or a task was built from a 2xx or, for a task, a 304 answer; and a
\* request answered 403, 405 or 429 has written nothing.
C24_EntryIsNormalisedPayload ==
  /\ IsSome(cache) =>
       /\ Val(cache).status = 200
       /\ Val(cache).body \in Normalisations
  /\ \A h \in Handlers :
       handlers[h].pc = "put"
         => /\ Ok(Val(handlers[h].facts.fetched))
            /\ handlers[h].newCached.body \in Normalisations
  /\ \A t \in Tasks :
       tasks[t].pc = "put"
         => /\ Ok(tasks[t].fetched) \/ tasks[t].fetched.status = 304
            /\ tasks[t].newCached.body \in Normalisations
  /\ Completed =>
       LET x == Val(last)
       IN /\ (~x.thrown /\ x.response.status \in {403, 405, 429})
               => x.eff.writes = 0 /\ x.eff.reads = 0
          /\ x.path \in {"empty", "fetch-error", "json-error"} => x.eff.writes = 0

\* the case of C24: the empty-list fallback is returned after a non-2xx
\* answer that carried a JSON body, and the slot is still empty
C24_FallbackNotWritten ==
  /\ Completed
  /\ Val(last).path = "empty"
  /\ Val(last).fetched = Some([status |-> 403, version |-> upstream, parsable |-> TRUE])
  /\ hasCache
  /\ cache = None

\* C25: in the stale path the body of the cached response is handed to the
\* client's response before the revalidation reaches its 304 branch, and the
\* 304 branch is nevertheless always able to read that body: no revalidation
\* ends because cachedRes.clone() found the body used.
C25_NotModifiedAlwaysReadsBody ==
  \A t \in Tasks : tasks[t] # Ended("unreadable")

\* the case of C25: the stale response built over the cached body has been
\* returned to the client while the revalidation that captured the same
\* cached response still awaits its upstream call
C25_BodyHandedOverBeforeRevalidation ==
  /\ Completed
  /\ Val(last).path = "stale"
  /\ Val(last).eff.sched = 1
  /\ \E t \in Tasks :
       /\ tasks[t].pc = "fetch"
       /\ Some(tasks[t].cachedRes) = Val(last).cached
       /\ tasks[t].cachedRes.body = Val(last).response.body

====
